---- MODULE Spec2Model ----
(***************************************************************************)
(* Markov-chain learning and sentence generation of the Spam cog           *)
(* (src/cogs/spam.py).                                                     *)
(*                                                                         *)
(* Text is a sequence of one-character strings, so that the substring,     *)
(* prefix and trimming tests of the code are computed and not assumed.     *)
(* A chain is the bag of sentences it was trained on: markovify.combine    *)
(* adds the counts of two tables key by key, which on bags of training     *)
(* sentences is the bag sum.                                               *)
(*                                                                         *)
(* The update coroutine is cut at every statement that can fail or         *)
(* suspend; `running` is the coroutine that holds the event loop.          *)
(***************************************************************************)
EXTENDS Naturals, Integers, Sequences, FiniteSets, Bags, TLC

\* ------------------------------------------------------------------ bounds
MaxRecords == 2
MaxMessageId == 2

\* --------------------------------------------------------------- constants
attempts == 10
max_length == 1024
cut_length == 1020

\* the two settings of the pregeneration, read from the configuration file
PREGEN_MARKOV_SENTENCES_AMOUNT == 3
PREGEN_REGENERATE_LIMIT == 2

\* -------------------------------------------------------------------- text
StrEmpty == <<>>
StrHelloWorld == <<"h","e","l","l","o"," ","w","o","r","l","d">>
StrIgnoreThis == <<"!","i","g","n","o","r","e"," ","t","h","i","s">>
StrEveryoneHi == <<"@","e","v","e","r","y","o","n","e"," ","h","i">>
StrJack == <<"J","a","c","k"," ","i","s"," ","a"," ","n","a","u","g","h","t","y"," ","b","o","y",".">>
StrAt == <<"@">>
StrNoIdea == <<"I"," ","h","a","v","e"," ","n","o"," ","i","d","e","a"," ","w","h","a","t",
               " ","I","'","m"," ","d","o","i","n","g",".">>
StrAtHere == <<"@","h","e","r","e">>
StrAtEveryone == <<"@","e","v","e","r","y","o","n","e">>

\* the grave accent, chr(96), which a TLA+ string cannot hold
Grave == "chr96"

\* string.punctuation
string_punctuation ==
  <<"!","\"","#","$","%","&","'","(",")","*","+",",","-",".","/",":",";",
    "<","=",">","?","@","[","\\","]","^","_",Grave,"{","|","}","~">>

\* Python `sub in s`
Contains(sub, s) ==
  \E i \in 0..Len(s) : i + Len(sub) <= Len(s) /\ SubSeq(s, i + 1, i + Len(sub)) = sub

\* Python `s.startswith(prefix)`: the whole of prefix is the head of s
StartsWith(s, prefix) ==
  Len(prefix) <= Len(s) /\ SubSeq(s, 1, Len(prefix)) = prefix

\* ------------------------------------------------------------------ chains
RECURSIVE BagOfSeq(_)
BagOfSeq(q) == IF q = <<>> THEN EmptyBag ELSE SetToBag({Head(q)}) (+) BagOfSeq(Tail(q))

\* markovify.NewlineText(messages).chain
NewlineText(msgs) == BagOfSeq(msgs)

\* a merge that keeps the first model's count for what both models hold
combineKeepsFirst(a, b) ==
  [e \in (DOMAIN a) \cup (DOMAIN b) |-> IF e \in DOMAIN a THEN a[e] ELSE b[e]]

\* markovify.combine([a, b])
combine(a, b) == a (+) b

\* markovify.combine(models): the models are added one after another
RECURSIVE mergeInto(_, _)
mergeInto(acc, list) ==
  IF list = <<>> THEN acc ELSE mergeInto(combine(acc, Head(list)), Tail(list))
merge(list) == mergeInto(EmptyBag, list)

\* markovify.Text("Jack is a naughty boy.", state_size=2)
SeedChain == SetToBag({StrJack})

\* a chain.pickle left by an earlier run
OldChain == SetToBag({StrHelloWorld, StrEveryoneHi})

\* a chain.pickle with one sentence that is too long to be shown
StrLong == [k \in 1..(max_length + 1) |-> "a"]
LongChain == SetToBag({StrLong})

\* a chain.pickle with a sentence of just the length that can be shown
StrAtLimit == [k \in 1..max_length |-> "a"]
LimitChain == SetToBag({StrAtLimit})

\* a chain.pickle with a sentence too long to be shown that ends in "hello"
StrLongTail == [k \in 1..max_length |-> "a"] \o <<" ", "h", "e", "l", "l", "o">>
TailChain == SetToBag({StrLongTail})

\* ------------------------------------------------------------------- files
\* pickle.dump of a chain: its entries one after another, each key with its
\* count
RECURSIVE pickle_dump(_)
pickle_dump(c) ==
  IF DOMAIN c = {} THEN <<>>
  ELSE LET e == CHOOSE e \in DOMAIN c : TRUE
       IN <<[key |-> e, count |-> c[e]]>> \o pickle_dump([k \in (DOMAIN c) \ {e} |-> c[k]])

\* pickle.load: the entries are put back, each key under its count
RECURSIVE pickle_load(_)
pickle_load(bytes) ==
  IF bytes = <<>> THEN EmptyBag
  ELSE [k \in {Head(bytes).key} |-> Head(bytes).count] (+) pickle_load(Tail(bytes))

Absent == [state |-> "absent", bytes |-> <<>>]
Partial == [state |-> "partial", bytes |-> <<>>]
Pickled(c) == [state |-> "complete", bytes |-> pickle_dump(c)]
IsChain(f) == f.state = "complete"

\* --------------------------------------------------------------- processes
Manual == {"m"}
Periodic == {"p"}
Procs == Manual \cup Periodic
Idle == "idle"

\* inter is an interaction for the slash command and None for the task
HasInter(p) == p \in Manual

MessageIds == 1..MaxMessageId
Contents == {StrEmpty, StrHelloWorld, StrIgnoreThis, StrEveryoneHi}

VARIABLES
  messages_for_chain_update,  \* self.messages_for_chain_update, in insertion order
  markov_chain,               \* self.markov.chain
  primary,                    \* data/chain.pickle
  backup,                     \* data/chain.pickle.bak
  running,                    \* the coroutine that holds the event loop
  pc,                         \* next statement of each update invocation
  messages,                   \* local `messages`
  new_model,                  \* local `new_model`
  combined,                   \* local `combined`
  result,                     \* how the invocation ends
  task_alive,                 \* scheduled_update_markov_chain is still scheduled
  nrecords,                   \* messages observed so far
  snap,                       \* history: shared state when `messages` was taken
  merged,                     \* history: bag of the recordings merged into the chain
  learned,                    \* history: bag of the texts merged into the chain
  boot_chain,                 \* history: the chain loaded at start
  persisted,                  \* history: the chain last written completely
  last_op,                    \* history: the last handler that ran and the buffer before it
  gen_pc,                     \* generate_sentence: where the call is
  seed_word,                  \* generate_sentence: argument
  mentions,                   \* generate_sentence: argument
  attempt,                    \* generate_sentence: rounds of the loop done
  sentence,                   \* generate_sentence: local `sentence`, and the value returned
  self_attempts,              \* self.attempts
  walked,                     \* history: the walks of the last round and what they gave
  markov_sentences,           \* SlashbotCog.markov_sentences: seed word -> list
  markov_gen_on,              \* bot.markov_gen_on
  refill_pc,                  \* regenerate_markov_sentences: asleep, or in its loop
  refill_todo,                \* regenerate_markov_sentences: seed words still to visit
  cache_op                    \* history: the last cache operation and the lists before it

\* the state of the helpers and of the other cogs
VARIABLES
  models,                     \* markovify.combine: the models handed to it
  tables,                     \* markovify.combine: the chains it returned
  words,                      \* join_list_max_chars: argument
  max_chars,                  \* join_list_max_chars: argument
  joined,                     \* join_list_max_chars: the string returned
  channel_histories,          \* TextGeneration.channel_histories: channel -> messages, oldest first
  history_pc,                 \* update_channel_message_history: at rest, or in its loop
  history_id,                 \* update_channel_message_history: argument
  history_before,             \* history: the histories when the call began, and the new message
  nposted,                    \* messages handed to update_channel_message_history so far
  conversation,               \* self.conversations[history_id], for one channel
  prompt_pc,                  \* send_response_to_prompt: where each handler is
  conversation_copy,          \* send_response_to_prompt: local `conversation_copy`
  prompt_id,                  \* send_response_to_prompt: the prompt each handler answers
  llm,                        \* history: how generate_text_from_llm ended for each handler
  replied,                    \* history: what each handler sent to the channel
  nprompts,                   \* prompts handed to send_response_to_prompt so far
  reminders,                  \* Reminder.reminders: id -> reminder
  reminders_file,             \* the reminders file as save_reminders left it
  passed,                     \* the reminders whose `when` is not after now
  remind_pc,                  \* check_reminders: asleep, in its loop, in a send, or ended
  remind_todo,                \* check_reminders: what is left of list(self.reminders.items())
  deliveries,                 \* history: which reminder went where in which tick
  nticks,                     \* ticks of check_reminders so far
  nset,                       \* reminders set so far
  cleanup_functions,          \* Bot.cleanup_functions
  close_pc,                   \* Bot.close: not called, in its loop, in an await, or ended
  close_index,                \* Bot.close: the place of `function` in the list
  called,                     \* history: the calls Bot.close has made, in order
  framework_closed            \* super().close() has been called

mergevars == <<models, tables>>
joinvars == <<words, max_chars, joined>>
historyvars == <<channel_histories, history_pc, history_id, history_before, nposted>>
promptvars == <<conversation, prompt_pc, conversation_copy, prompt_id, llm, replied, nprompts>>
remindvars == <<reminders, reminders_file, passed, remind_pc, remind_todo, deliveries, nticks, nset>>
closevars == <<cleanup_functions, close_pc, close_index, called, framework_closed>>
othervars == <<mergevars, joinvars, historyvars, promptvars, remindvars, closevars>>

vars == <<messages_for_chain_update, markov_chain, primary, backup, running, pc,
          messages, new_model, combined, result, task_alive, nrecords, snap,
          merged, learned, boot_chain, persisted, last_op, gen_pc, seed_word,
          mentions, attempt, sentence, self_attempts, walked, markov_sentences, markov_gen_on, refill_pc,
          refill_todo, cache_op, othervars>>

updvars == <<pc, messages, new_model, combined, result, snap>>
histvars == <<merged, learned, boot_chain, persisted>>
genvars == <<gen_pc, seed_word, mentions, attempt, sentence, self_attempts, walked>>
cachevars == <<markov_sentences, markov_gen_on, refill_pc, refill_todo, cache_op>>
spamvars == <<messages_for_chain_update, markov_chain, primary, backup, running, updvars,
              task_alive, nrecords, histvars, last_op, genvars, cachevars>>

\* what a step of one helper or cog leaves alone: the Spam cog and the others
Frame(own) ==
  /\ UNCHANGED spamvars
  /\ IF own = "combine" THEN TRUE ELSE UNCHANGED mergevars
  /\ IF own = "join" THEN TRUE ELSE UNCHANGED joinvars
  /\ IF own = "history" THEN TRUE ELSE UNCHANGED historyvars
  /\ IF own = "prompt" THEN TRUE ELSE UNCHANGED promptvars
  /\ IF own = "remind" THEN TRUE ELSE UNCHANGED remindvars
  /\ IF own = "close" THEN TRUE ELSE UNCHANGED closevars

\* an optional string: None, or a string
None == <<>>
Some(str) == <<str>>

NoSnap == [taken |-> FALSE, buffer |-> <<>>, chain |-> EmptyBag, primary |-> Absent,
           serials |-> EmptyBag]
NoOp == [op |-> "none", id |-> 0, cached |-> FALSE, before |-> <<>>, content |-> <<>>]
NoWalk == [raised |-> FALSE, seeded |-> None, made |-> FALSE, unconstrained |-> None]

\* create_and_run_bot: the seed chain, replaced by the pickle when it exists
Boot(file) ==
  /\ primary = file
  /\ markov_chain = (IF IsChain(file) THEN pickle_load(file.bytes) ELSE SeedChain)

\* Spam.__init__, and what no call has touched yet
InitLocals(budgets) ==
  /\ backup = Absent
  /\ messages_for_chain_update = <<>>
  /\ pc = [p \in Procs |-> "idle"]
  /\ messages = [p \in Procs |-> <<>>]
  /\ new_model = [p \in Procs |-> EmptyBag]
  /\ combined = [p \in Procs |-> EmptyBag]
  /\ result = [p \in Procs |-> "none"]
  /\ task_alive = TRUE
  /\ nrecords = 0
  /\ snap = [p \in Procs |-> NoSnap]
  /\ merged = EmptyBag
  /\ learned = EmptyBag
  /\ last_op = NoOp
  /\ gen_pc = "idle"
  /\ seed_word = None
  /\ mentions = FALSE
  /\ attempt = 0
  /\ sentence = None
  /\ self_attempts \in budgets
  /\ walked = NoWalk

\* the bot is up: the chain is loaded and the event loop is free
InitStarted(files, budgets) ==
  /\ \E file \in files : Boot(file)
  /\ running = Idle
  /\ boot_chain = markov_chain
  /\ persisted = markov_chain
  /\ InitLocals(budgets)

InitSpam(files) == InitStarted(files, {attempts})

\* ------------------------------------------------- the pregeneration cache
\* the seed words of the Weather cog, and one no cog has installed
KnownSeeds == {"weather", "forecast"}
SeedOrder == <<"weather", "forecast">>
AskedSeeds == KnownSeeds \cup {"unban"}

\* what slashbot.markov.generate_sentence can return
PregenSentences == {StrHelloWorld, StrNoIdea}

\* slashbot.markov.generate_list_of_sentences_with_seed_word
generate_list_of_sentences_with_seed_word(seed, amount) ==
  [1..amount -> PregenSentences]

\* slashbot.markov.generate_sentences_for_seed_words
generate_sentences_for_seed_words(seeds, amount) ==
  [seeds -> [1..amount -> PregenSentences]]

\* self.markov_sentences = {}
NoLists == [seed \in {} |-> <<>>]

NoCacheOp == [op |-> "none", prev |-> "none", seed |-> "", before |-> NoLists,
              returned |-> <<>>, generated |-> FALSE]

\* SlashbotCog.__init__ and Weather.__init__; the refill task is started
InitCog(on) ==
  /\ markov_gen_on = on
  /\ markov_sentences = NoLists
  /\ refill_pc = "sleeping"
  /\ refill_todo = <<>>
  /\ cache_op = NoCacheOp

\* the channels the bot sees
Channels == {1, 2}

\* two invocations of send_response_to_prompt for one channel
Handlers == {"h1", "h2"}

\* the helpers and the other cogs at rest, but for the one under study
InitOthers(own) ==
  \* no call of markovify.combine under way
  /\ IF own = "combine" THEN TRUE
       ELSE /\ models = <<>>
            /\ tables = <<>>
  \* no call of join_list_max_chars under way
  /\ IF own = "join" THEN TRUE
       ELSE /\ words = <<>>
            /\ max_chars = 0
            /\ joined = None
  \* text_generation.py line 97: every channel starts on an empty ChannelHistory
  /\ IF own = "history" THEN TRUE
       ELSE /\ channel_histories = [ch \in Channels |-> <<>>]
            /\ history_pc = "idle"
            /\ history_id = 0
            /\ history_before = [histories |-> [ch \in Channels |-> <<>>], added |-> <<>>]
            /\ nposted = 0
  \* text_generation.py lines 94-96: the conversation starts without messages
  /\ IF own = "prompt" THEN TRUE
       ELSE /\ conversation = <<>>
            /\ prompt_pc = [h \in Handlers |-> "idle"]
            /\ conversation_copy = [h \in Handlers |-> <<>>]
            /\ prompt_id = [h \in Handlers |-> 0]
            /\ llm = [h \in Handlers |-> "none"]
            /\ replied = [h \in Handlers |-> "none"]
            /\ nprompts = 0
  \* Reminder.__init__ on an empty reminders file; the task is started
  /\ IF own = "remind" THEN TRUE
       ELSE /\ reminders = <<>>
            /\ reminders_file = <<>>
            /\ passed = {}
            /\ remind_pc = "sleeping"
            /\ remind_todo = <<>>
            /\ deliveries = {}
            /\ nticks = 0
            /\ nset = 0
  \* Bot.__init__: nothing is registered and the bot is not closed
  /\ IF own = "close" THEN TRUE
       ELSE /\ cleanup_functions = <<>>
            /\ close_pc = "up"
            /\ close_index = 0
            /\ called = <<>>
            /\ framework_closed = FALSE

\* a bot with no chain file, with everything at rest
InitQuiet == InitSpam({Absent}) /\ InitCog(FALSE) /\ InitOthers("none")

Init == InitSpam({Absent, Pickled(OldChain)}) /\ InitCog(FALSE) /\ InitOthers("none")

GenFiles ==
  {Absent, Pickled(OldChain), Pickled(LongChain), Pickled(LimitChain), Pickled(TailChain)}

InitGen == InitSpam(GenFiles) /\ InitCog(FALSE) /\ InitOthers("none")

\* Spam(bot, markov_gen, bad_words, god_words, attempts): the budgets tried
AttemptBudgets == {0, 1, attempts}

InitBudget == InitStarted(GenFiles, AttemptBudgets) /\ InitCog(FALSE) /\ InitOthers("none")

InitCache == InitSpam({Absent}) /\ \E on \in BOOLEAN : InitCog(on) /\ InitOthers("none")

\* ------------------------------------------------------- the sample buffer
Ids(buf) == {buf[i].id : i \in 1..Len(buf)}
Entry(buf, id) == CHOOSE i \in 1..Len(buf) : buf[i].id = id

\* a list in place of the dict: every message is added at the end
PutAlwaysAppends(buf, id, content, serial) ==
  Append(buf, [id |-> id, content |-> content, serial |-> serial])

\* dict.__setitem__: a known key keeps its place, a new key goes last
Put(buf, id, content, serial) ==
  LET e == [id |-> id, content |-> content, serial |-> serial]
  IN IF id \in Ids(buf) THEN [buf EXCEPT ![Entry(buf, id)] = e] ELSE Append(buf, e)

\* dict.pop(key, None)
Pop(buf, id) == SelectSeq(buf, LAMBDA e : e.id # id)

\* a clear() that was left out
ClearLeftOut(buf) == buf

\* dict.clear()
Clear(buf) == <<>>

\* the three tests of clean_up_messages
Learnable(text) ==
  /\ ~(Len(text) = 0)
  /\ ~StartsWith(text, string_punctuation)
  /\ ~Contains(StrAt, text)

RECURSIVE clean_up_messages(_)
clean_up_messages(buf) ==
  IF buf = <<>> THEN <<>>
  ELSE (IF Learnable(Head(buf).content) THEN <<Head(buf).content>> ELSE <<>>)
         \o clean_up_messages(Tail(buf))

\* history: the recordings that clean_up_messages lets through
RECURSIVE CleanSerials(_)
CleanSerials(buf) ==
  IF buf = <<>> THEN EmptyBag
  ELSE (IF Learnable(Head(buf).content) THEN SetToBag({Head(buf).serial}) ELSE EmptyBag)
         (+) CleanSerials(Tail(buf))

\* ------------------------------------------------------------- the listeners
\* on_message
listen_to_messages(id, content) ==
  /\ running = Idle
  /\ nrecords < MaxRecords
  /\ nrecords' = nrecords + 1
  /\ messages_for_chain_update' = Put(messages_for_chain_update, id, content, nrecords + 1)
  /\ last_op' = [op |-> "record", id |-> id, cached |-> TRUE,
                  before |-> messages_for_chain_update, content |-> content]
  /\ UNCHANGED <<othervars, cachevars, genvars, markov_chain, primary, backup, running, updvars, task_alive, histvars>>

\* on_raw_message_delete; cached is whether payload.cached_message is set
remove_delete_messages(id, cached) ==
  /\ running = Idle
  /\ messages_for_chain_update' =
       (IF cached THEN Pop(messages_for_chain_update, id) ELSE messages_for_chain_update)
  /\ last_op' = [op |-> "delete", id |-> id, cached |-> cached,
                  before |-> messages_for_chain_update, content |-> <<>>]
  /\ UNCHANGED <<othervars, cachevars, genvars, markov_chain, primary, backup, running, updvars, task_alive, nrecords, histvars>>

\* ------------------------------------------------------------ the event loop
\* the backup copy awaited, so that the loop runs between the snapshot and
\* the clear
SuspendsAtCopy(label) == label \in {"idle", "deferred", "replying", "copy"}

\* the model build handed to a worker and awaited
SuspendsAtBuild(label) == label \in {"idle", "deferred", "replying", "build"}

\* the places where an update coroutine is parked and the loop runs others:
\* before it is called, in `await inter.response.defer`, and in the await of
\* its last reply
Suspends(label) == label \in {"idle", "deferred", "replying"}

CanRun(p) == running = p \/ (running = Idle /\ Suspends(pc[p]))

Goto(p, label) ==
  /\ pc' = [pc EXCEPT ![p] = label]
  /\ running' = (IF Suspends(label) THEN Idle ELSE p)

Ends(p, label, res) ==
  /\ Goto(p, label)
  /\ result' = [result EXCEPT ![p] = res]

UpdOp(p, name) == last_op' = NoOp

\* a reply goes through inter; without inter the function returns at once
ReplyOrReturn(p, res) == Ends(p, IF HasInter(p) THEN "replying" ELSE "return", res)

Raised == {"raised_copy", "raised_build", "raised_open", "raised_dump"}

\* ------------------------------------------------------ update_markov_chain
\* lines 172-178: called by the command (inter) or by the hourly task (None)
UpdateCall(p) ==
  /\ pc[p] = "idle"
  /\ CanRun(p)
  /\ p \in Periodic => task_alive
  /\ IF Len(messages_for_chain_update) = 0
       THEN ReplyOrReturn(p, "nothing_to_learn")
       ELSE Ends(p, IF HasInter(p) THEN "deferred" ELSE "clean", "none")
  /\ UpdOp(p, "call")
  /\ UNCHANGED <<othervars, cachevars, genvars, messages_for_chain_update, markov_chain, primary, backup, messages,
                 new_model, combined, snap, task_alive, nrecords, histvars>>

\* the copy2 moved in front of the test of the snapshot
UpdateCleanCopiesFirst(p) ==
  /\ pc[p] \in {"deferred", "clean"}
  /\ CanRun(p)
  /\ messages' = [messages EXCEPT ![p] = clean_up_messages(messages_for_chain_update)]
  /\ snap' = [snap EXCEPT ![p] = [taken |-> TRUE, buffer |-> messages_for_chain_update,
                                  chain |-> markov_chain, primary |-> primary,
                                  serials |-> CleanSerials(messages_for_chain_update)]]
  /\ IF Len(messages'[p]) = 0
       THEN ReplyOrReturn(p, "nothing_to_learn")
       ELSE Ends(p, "copy", "none")
  /\ backup' = (IF primary # Absent THEN primary ELSE backup)
  /\ UpdOp(p, "clean")
  /\ UNCHANGED <<othervars, cachevars, genvars, messages_for_chain_update, markov_chain, primary, new_model,
                 combined, task_alive, nrecords, histvars>>

\* a clean_up_messages that takes what it returns out of the buffer
UpdateCleanDrains(p) ==
  /\ pc[p] \in {"deferred", "clean"}
  /\ CanRun(p)
  /\ messages' = [messages EXCEPT ![p] = clean_up_messages(messages_for_chain_update)]
  /\ snap' = [snap EXCEPT ![p] = [taken |-> TRUE, buffer |-> messages_for_chain_update,
                                  chain |-> markov_chain, primary |-> primary,
                                  serials |-> CleanSerials(messages_for_chain_update)]]
  /\ messages_for_chain_update' =
       SelectSeq(messages_for_chain_update, LAMBDA e : ~Learnable(e.content))
  /\ IF Len(messages'[p]) = 0
       THEN ReplyOrReturn(p, "nothing_to_learn")
       ELSE Ends(p, "copy", "none")
  /\ UpdOp(p, "clean")
  /\ UNCHANGED <<othervars, cachevars, genvars, markov_chain, primary, backup, new_model,
                 combined, task_alive, nrecords, histvars>>

\* lines 180-184
UpdateClean(p) ==
  /\ pc[p] \in {"deferred", "clean"}
  /\ CanRun(p)
  /\ messages' = [messages EXCEPT ![p] = clean_up_messages(messages_for_chain_update)]
  /\ snap' = [snap EXCEPT ![p] = [taken |-> TRUE, buffer |-> messages_for_chain_update,
                                  chain |-> markov_chain, primary |-> primary,
                                  serials |-> CleanSerials(messages_for_chain_update)]]
  /\ IF Len(messages'[p]) = 0
       THEN ReplyOrReturn(p, "nothing_to_learn")
       ELSE Ends(p, "copy", "none")
  /\ UpdOp(p, "clean")
  /\ UNCHANGED <<othervars, cachevars, genvars, messages_for_chain_update, markov_chain, primary, backup, new_model,
                 combined, task_alive, nrecords, histvars>>

\* line 186: shutil.copy2 raises when the source is missing; when it fails
\* later the copy is untouched or cut short
UpdateCopy(p) ==
  /\ pc[p] = "copy"
  /\ CanRun(p)
  /\ \/ /\ primary # Absent
        /\ backup' = primary
        /\ Ends(p, "build", "none")
     \/ /\ primary = Absent
        /\ backup' = backup
        /\ Ends(p, "return", "raised_copy")
     \/ /\ primary # Absent
        /\ backup' \in {backup, Partial}
        /\ Ends(p, "return", "raised_copy")
  /\ UpdOp(p, "copy")
  /\ UNCHANGED <<othervars, cachevars, genvars, messages_for_chain_update, markov_chain, primary, messages, new_model,
                 combined, snap, task_alive, nrecords, histvars>>

\* the clear() moved in front of the try
UpdateBuildClearsFirst(p) ==
  /\ pc[p] = "build"
  /\ CanRun(p)
  /\ \/ /\ new_model' = [new_model EXCEPT ![p] = NewlineText(messages[p])]
        /\ Ends(p, "merge", "none")
     \/ /\ new_model' = new_model
        /\ IF HasInter(p)
             THEN Ends(p, "replying", "build_error")
             ELSE Ends(p, "return", "raised_build")
  /\ messages_for_chain_update' = <<>>
  /\ UpdOp(p, "build")
  /\ UNCHANGED <<othervars, cachevars, genvars, markov_chain, primary, backup, messages,
                 combined, snap, task_alive, nrecords, histvars>>

\* lines 187-190: the KeyError handler replies through inter.response, which
\* is an AttributeError when inter is None
UpdateBuild(p) ==
  /\ pc[p] = "build"
  /\ CanRun(p)
  /\ \/ /\ new_model' = [new_model EXCEPT ![p] = NewlineText(messages[p])]
        /\ Ends(p, "merge", "none")
     \/ /\ new_model' = new_model
        /\ IF HasInter(p)
             THEN Ends(p, "replying", "build_error")
             ELSE Ends(p, "return", "raised_build")
  /\ UpdOp(p, "build")
  /\ UNCHANGED <<othervars, cachevars, genvars, messages_for_chain_update, markov_chain, primary, backup, messages,
                 combined, snap, task_alive, nrecords, histvars>>

\* a clear that takes out only the entries the filter let through
UpdateMergeKeepsFiltered(p) ==
  /\ pc[p] = "merge"
  /\ CanRun(p)
  /\ combined' = [combined EXCEPT ![p] = combine(markov_chain, new_model[p])]
  /\ messages_for_chain_update' =
       SelectSeq(messages_for_chain_update, LAMBDA e : ~Learnable(e.content))
  /\ markov_chain' = combined'[p]
  /\ merged' = merged (+) snap[p].serials
  /\ learned' = learned (+) BagOfSeq(messages[p])
  /\ Ends(p, "open", "none")
  /\ UpdOp(p, "merge")
  /\ UNCHANGED <<othervars, cachevars, genvars, primary, backup, messages, new_model, snap, task_alive, nrecords,
                 boot_chain, persisted>>
\* a merge that adds the new entries to the live table one at a time and
\* lets the loop run between two of them
UpdateMergeInPlace(p) ==
  /\ pc[p] = "merge"
  /\ running \in {p, Idle}
  /\ IF new_model[p] # EmptyBag
       THEN LET t == CHOOSE t \in BagToSet(new_model[p]) : TRUE
            IN /\ markov_chain' = markov_chain (+) SetToBag({t})
               /\ new_model' = [new_model EXCEPT ![p] = @ (-) SetToBag({t})]
               /\ running' = Idle
               /\ UNCHANGED <<pc, result, combined, messages_for_chain_update, merged,
                              learned>>
       ELSE /\ combined' = [combined EXCEPT ![p] = markov_chain]
            /\ messages_for_chain_update' = <<>>
            /\ merged' = merged (+) snap[p].serials
            /\ learned' = learned (+) BagOfSeq(messages[p])
            /\ pc' = [pc EXCEPT ![p] = "open"]
            /\ running' = p
            /\ UNCHANGED <<markov_chain, new_model, result>>
  /\ last_op' = [op |-> "none", id |-> 0, cached |-> FALSE, before |-> <<>>]
  /\ UNCHANGED <<othervars, cachevars, genvars, primary, backup, messages, snap, task_alive, nrecords,
                 boot_chain, persisted>>

\* lines 192-194
UpdateMerge(p) ==
  /\ pc[p] = "merge"
  /\ CanRun(p)
  /\ combined' = [combined EXCEPT ![p] = combine(markov_chain, new_model[p])]
  /\ messages_for_chain_update' = Clear(messages_for_chain_update)
  /\ markov_chain' = combined'[p]
  /\ merged' = merged (+) snap[p].serials
  /\ learned' = learned (+) BagOfSeq(messages[p])
  /\ Ends(p, "open", "none")
  /\ UpdOp(p, "merge")
  /\ UNCHANGED <<othervars, cachevars, genvars, primary, backup, messages, new_model, snap, task_alive, nrecords,
                 boot_chain, persisted>>

\* line 196: open(..., "wb") empties the file
UpdateOpen(p) ==
  /\ pc[p] = "open"
  /\ CanRun(p)
  /\ \/ /\ primary' = Partial
        /\ Ends(p, "dump", "none")
     \/ /\ primary' = primary
        /\ Ends(p, "return", "raised_open")
  /\ UpdOp(p, "open")
  /\ UNCHANGED <<othervars, cachevars, genvars, messages_for_chain_update, markov_chain, backup, messages, new_model,
                 combined, snap, task_alive, nrecords, histvars>>

\* a dump of the new model in place of the combined one
UpdateDumpNewModel(p) ==
  /\ pc[p] = "dump"
  /\ CanRun(p)
  /\ \/ /\ primary' = Pickled(new_model[p])
        /\ persisted' = combined[p]
        /\ ReplyOrReturn(p, "learned")
     \/ /\ primary' = primary
        /\ persisted' = persisted
        /\ Ends(p, "return", "raised_dump")
  /\ UpdOp(p, "dump")
  /\ UNCHANGED <<othervars, cachevars, genvars, messages_for_chain_update, markov_chain, backup, messages, new_model,
                 combined, snap, task_alive, nrecords, merged, learned, boot_chain>>

\* lines 197-200
UpdateDump(p) ==
  /\ pc[p] = "dump"
  /\ CanRun(p)
  /\ \/ /\ primary' = Pickled(combined[p])
        /\ persisted' = combined[p]
        /\ ReplyOrReturn(p, "learned")
     \/ /\ primary' = primary
        /\ persisted' = persisted
        /\ Ends(p, "return", "raised_dump")
  /\ UpdOp(p, "dump")
  /\ UNCHANGED <<othervars, cachevars, genvars, messages_for_chain_update, markov_chain, backup, messages, new_model,
                 combined, snap, task_alive, nrecords, merged, learned, boot_chain>>

\* the awaited reply (lines 174, 183, 190, 200) has been sent; the calls on
\* inter are taken to complete
UpdateReplied(p) ==
  /\ pc[p] = "replying"
  /\ CanRun(p)
  /\ Goto(p, "return")
  /\ UpdOp(p, "replied")
  /\ UNCHANGED <<othervars, cachevars, genvars, messages_for_chain_update, markov_chain, primary, backup, messages,
                 new_model, combined, result, snap, task_alive, nrecords, histvars>>

\* the call ends; an exception that leaves the hourly task ends the task
\* (lines 407-410), one that leaves the command goes to the error handler
UpdateReturn(p) ==
  /\ pc[p] = "return"
  /\ CanRun(p)
  /\ pc' = [pc EXCEPT ![p] = "idle"]
  /\ running' = Idle
  /\ task_alive' = (IF p \in Periodic /\ result[p] \in Raised THEN FALSE ELSE task_alive)
  /\ messages' = [messages EXCEPT ![p] = <<>>]
  /\ new_model' = [new_model EXCEPT ![p] = EmptyBag]
  /\ combined' = [combined EXCEPT ![p] = EmptyBag]
  /\ snap' = [snap EXCEPT ![p] = NoSnap]
  /\ result' = [result EXCEPT ![p] = "none"]
  /\ UpdOp(p, "return")
  /\ UNCHANGED <<othervars, cachevars, genvars, messages_for_chain_update, markov_chain, primary, backup, nrecords,
                 histvars>>

update_markov_chain(p) ==
  \/ UpdateCall(p)
  \/ UpdateClean(p)
  \/ UpdateCopy(p)
  \/ UpdateBuild(p)
  \/ UpdateMerge(p)
  \/ UpdateOpen(p)
  \/ UpdateDump(p)
  \/ UpdateReplied(p)
  \/ UpdateReturn(p)

\* -------------------------------------------------------- generate_sentence
StrHello == <<"h","e","l","l","o">>
StrSpace == <<" ">>
StrDots == <<".",".",".">>

\* Python `not x` for an optional string
Falsy(opt) == opt = None \/ opt[1] = <<>>

RECURSIVE LStrip(_)
LStrip(str) == IF str # <<>> /\ Head(str) = " " THEN LStrip(Tail(str)) ELSE str
RECURSIVE RStrip(_)
RStrip(str) ==
  IF str # <<>> /\ str[Len(str)] = " " THEN RStrip(SubSeq(str, 1, Len(str) - 1)) ELSE str

\* str.strip()
strip(str) == RStrip(LStrip(str))

\* str.split(): the maximal runs without a blank
split(str) ==
  LET starts == {i \in 1..Len(str) : str[i] # " " /\ (i = 1 \/ str[i - 1] = " ")}
      ends == {j \in 1..Len(str) : str[j] # " " /\ (j = Len(str) \/ str[j + 1] = " ")}
      EndOf(i) == CHOOSE j \in ends : j >= i /\ \A k \in ends : k >= i => j <= k
  IN {SubSeq(str, i, EndOf(i)) : i \in starts}

\* len(str.split())
WordCount(str) ==
  Cardinality({i \in 1..Len(str) : str[i] # " " /\ (i = 1 \/ str[i - 1] = " ")})

\* a cut at the limit, with the dots added to it
TruncateAtLimit(str) ==
  IF Len(str) > max_length THEN SubSeq(str, 1, max_length) \o StrDots ELSE str

\* a cut that begins at the limit
TruncateFromLimit(str) ==
  IF Len(str) >= max_length THEN SubSeq(str, 1, cut_length) \o StrDots ELSE str

\* lines 355-356
Truncate(str) ==
  IF Len(str) > max_length THEN SubSeq(str, 1, cut_length) \o StrDots ELSE str

\* the sentences a walk over the chain can end in: nothing, or a sentence
make_sentence(chain) == {None} \cup {Some(t) : t \in BagToSet(chain)}

Returned(values) == {[raised |-> FALSE, value |-> v] : v \in values}
Raises == {[raised |-> TRUE, value |-> None]}

\* a walk through a state that holds the word; no such state is a KeyError
make_sentence_that_contains(chain, word) ==
  LET found == {t \in BagToSet(chain) : \E w \in split(t) : w = strip(word)}
  IN IF found = {} THEN Raises ELSE Returned({None} \cup {Some(t) : t \in found})

\* a walk from the state of the phrase; no such state is a KeyError
make_sentence_with_start(chain, phrase) ==
  LET found == {t \in BagToSet(chain) : StartsWith(t, strip(phrase))}
  IN IF found = {} THEN Raises ELSE Returned({None} \cup {Some(t) : t \in found})

\* lines 323-336: first is what the seeded or the plain walk does, second
\* what the walk of the exception handler returns
Walk(chain, seed) ==
  IF ~Falsy(seed)
    THEN IF WordCount(seed[1]) > 1
           THEN make_sentence_with_start(chain, seed[1])
           ELSE make_sentence_that_contains(chain, seed[1])
    ELSE Returned(make_sentence(chain))

\* a fallback that also follows a seeded walk that ended in nothing
FallbackOnNothing(first) == first.raised \/ Falsy(first.value)

\* lines 329-330: the unconstrained walk is made in the except clause only
Fallback(first) == first.raised

\* what the round did, for the record
Walked(seed, first, second) ==
  IF Falsy(seed)
    THEN [raised |-> FALSE, seeded |-> None, made |-> TRUE, unconstrained |-> first.value]
    ELSE [raised |-> first.raised, seeded |-> first.value, made |-> Fallback(first),
          unconstrained |-> IF Fallback(first) THEN second ELSE None]

\* a round without line 334
RoundWithoutSeed(seed, first, second) ==
  LET made == IF Fallback(first) THEN second ELSE first.value
  IN IF Falsy(made) THEN Some(StrNoIdea) ELSE made

\* lines 323-340
Round(seed, first, second) ==
  LET made == IF Fallback(first) THEN second ELSE first.value
      seeded == IF ~Falsy(seed) /\ Falsy(made) THEN seed ELSE made
  IN IF Falsy(seeded) THEN Some(StrNoIdea) ELSE seeded

\* lines 345-349: the round that ends the loop
Passes(str, with_mentions) ==
  /\ ~Contains(StrAtHere, str) /\ ~Contains(StrAtEveryone, str)
  /\ with_mentions \/ ~Contains(StrAt, str)

Seeds == {None, Some(StrEmpty), Some(StrSpace), Some(StrHello), Some(StrHelloWorld),
          Some(StrAtEveryone)}

\* a call that empties the buffer of the messages it has read
GenForgetsBuffer ==
  /\ messages_for_chain_update' = <<>>
  /\ UNCHANGED <<markov_chain, primary, backup, running,
                 updvars, task_alive, nrecords, histvars, last_op, cachevars, othervars>>

GenUnchanged ==
  UNCHANGED <<messages_for_chain_update, markov_chain, primary, backup, running,
              updvars, task_alive, nrecords, histvars, last_op, cachevars, othervars>>

\* line 322: range(self.attempts) has given all it holds
LoopOver(n) == n >= self_attempts

\* a loop with no break
RoundEndsAtBudgetOnly(str, with_mentions, n) == LoopOver(n)

\* lines 322 and 345-349: the break, or the end of the range
RoundEnds(str, with_mentions, n) == Passes(str, with_mentions) \/ LoopOver(n)

\* line 307: the call
GenCall(seed, with_mentions) ==
  /\ gen_pc \in {"idle", "done", "raised"}
  /\ gen_pc' = (IF LoopOver(0) THEN "finish" ELSE "loop")
  /\ seed_word' = seed
  /\ mentions' = with_mentions
  /\ attempt' = 0
  /\ sentence' = None
  /\ walked' = NoWalk
  /\ UNCHANGED self_attempts
  /\ GenUnchanged

\* lines 322-349: one round of the loop
GenRound ==
  /\ gen_pc = "loop"
  /\ \E first \in Walk(markov_chain, seed_word), second \in make_sentence(markov_chain) :
       /\ sentence' = Round(seed_word, first, second)
       /\ walked' = Walked(seed_word, first, second)
  /\ attempt' = attempt + 1
  /\ gen_pc' = (IF RoundEnds(sentence'[1], mentions, attempt') THEN "finish" ELSE "loop")
  /\ UNCHANGED <<seed_word, mentions, self_attempts>>
  /\ GenUnchanged

\* lines 351-358; None.strip() is an AttributeError, and after no round at all
\* `sentence` is not bound: line 351 is an UnboundLocalError
GenFinish ==
  /\ gen_pc = "finish"
  /\ \E last \in make_sentence(markov_chain) :
       LET final == IF Falsy(sentence) THEN last ELSE sentence
       IN IF attempt = 0 \/ final = None
            THEN gen_pc' = "raised" /\ sentence' = None
            ELSE gen_pc' = "done" /\ sentence' = Some(Truncate(strip(final[1])))
  /\ UNCHANGED <<seed_word, mentions, attempt, self_attempts, walked>>
  /\ GenUnchanged

generate_sentence ==
  \/ \E seed \in Seeds, with_mentions \in BOOLEAN : GenCall(seed, with_mentions)
  \/ GenRound
  \/ GenFinish

NextGen == generate_sentence

SpecGen == InitGen /\ [][NextGen]_vars

\* generate_sentence under every budget of attempts; the function holds no
\* await, so a call that has begun runs on to its end
SpecBudget ==
  InitBudget /\ [][NextGen]_vars /\ WF_vars(GenRound) /\ WF_vars(GenFinish)

Next ==
  \/ \E id \in MessageIds, content \in Contents : listen_to_messages(id, content)
  \/ \E id \in MessageIds, cached \in BOOLEAN : remove_delete_messages(id, cached)
  \/ \E p \in Procs : update_markov_chain(p)

Spec == Init /\ [][Next]_vars

\* ------------------------------------------------------ create_and_run_bot
\* what data/chain.pickle can be when the bot starts: not there, cut short by
\* a write that failed, or whole
BootFiles == {Absent, Partial, Pickled(OldChain)}

\* bot.py line 85 has run: the seed chain is built, nothing is loaded yet and
\* no event loop runs
InitBoot ==
  /\ \E file \in BootFiles :
       /\ primary = file
       /\ persisted = (IF IsChain(file) THEN pickle_load(file.bytes) ELSE SeedChain)
  /\ markov_chain = SeedChain
  /\ boot_chain = SeedChain
  /\ running = "boot"
  /\ InitLocals({attempts})
  /\ InitCog(FALSE)
  /\ InitOthers("none")

\* a start that reads the backup when there is one
create_and_run_botFromBackup ==
  /\ running = "boot"
  /\ IF primary = Absent
       THEN markov_chain' = markov_chain /\ running' = Idle
       ELSE IF IsChain(backup)
              THEN markov_chain' = pickle_load(backup.bytes) /\ running' = Idle
              ELSE IF IsChain(primary)
                     THEN markov_chain' = pickle_load(primary.bytes) /\ running' = Idle
                     ELSE markov_chain' = markov_chain /\ running' = "crashed"
  /\ boot_chain' = markov_chain'
  /\ UNCHANGED <<othervars, cachevars, genvars, messages_for_chain_update, primary, backup, updvars,
                 task_alive, nrecords, merged, learned, persisted, last_op>>

\* bot.py lines 86-88 and the start of the bot: the file is loaded when
\* os.path.exists says it is there, and pickle.load raises on a file that is
\* no whole pickle
create_and_run_bot ==
  /\ running = "boot"
  /\ IF primary = Absent
       THEN markov_chain' = markov_chain /\ running' = Idle
       ELSE IF IsChain(primary)
              THEN markov_chain' = pickle_load(primary.bytes) /\ running' = Idle
              ELSE markov_chain' = markov_chain /\ running' = "crashed"
  /\ boot_chain' = markov_chain'
  /\ UNCHANGED <<othervars, cachevars, genvars, messages_for_chain_update, primary, backup, updvars,
                 task_alive, nrecords, merged, learned, persisted, last_op>>

NextBoot ==
  \/ create_and_run_bot
  \/ Next

SpecBoot == InitBoot /\ [][NextBoot]_vars

\* ------------------------------------------------------- stop and start again
\* the process ends while no coroutine holds the loop, and is started again:
\* what was in memory is gone, the two files stay
stop_bot ==
  /\ running = Idle
  /\ running' = "boot"
  /\ markov_chain' = SeedChain
  /\ boot_chain' = SeedChain
  /\ messages_for_chain_update' = <<>>
  /\ pc' = [p \in Procs |-> "idle"]
  /\ messages' = [p \in Procs |-> <<>>]
  /\ new_model' = [p \in Procs |-> EmptyBag]
  /\ combined' = [p \in Procs |-> EmptyBag]
  /\ result' = [p \in Procs |-> "none"]
  /\ snap' = [p \in Procs |-> NoSnap]
  /\ task_alive' = TRUE
  /\ merged' = EmptyBag
  /\ learned' = EmptyBag
  /\ last_op' = NoOp
  /\ UNCHANGED <<othervars, cachevars, genvars, primary, backup, nrecords, persisted>>

\* runs of the bot one after another over the same two files
NextRestart ==
  \/ create_and_run_bot
  \/ stop_bot
  \/ \E id \in MessageIds, content \in {StrHelloWorld, StrEveryoneHi} :
       listen_to_messages(id, content)
  \/ \E p \in Manual : update_markov_chain(p)

SpecRestart == InitBoot /\ [][NextRestart]_vars

\* ----------------------------------------------------------------- /chat
\* lines 136-137: after the defer the handler runs generate_sentence without
\* an await, so it holds the loop until the sentence is there
ChatCall(seed) ==
  /\ running = Idle
  /\ gen_pc = "idle"
  /\ running' = "chat"
  /\ gen_pc' = (IF LoopOver(0) THEN "finish" ELSE "loop")
  /\ seed_word' = seed
  /\ mentions' = FALSE
  /\ attempt' = 0
  /\ sentence' = None
  /\ walked' = NoWalk
  /\ UNCHANGED self_attempts
  /\ UNCHANGED <<messages_for_chain_update, markov_chain, primary, backup, updvars,
                 task_alive, nrecords, histvars, last_op, cachevars, othervars>>

\* line 137: the sentence goes out and the handler ends
ChatReply ==
  /\ running = "chat"
  /\ gen_pc \in {"done", "raised"}
  /\ running' = Idle
  /\ gen_pc' = "idle"
  /\ seed_word' = None
  /\ mentions' = FALSE
  /\ attempt' = 0
  /\ sentence' = None
  /\ walked' = NoWalk
  /\ UNCHANGED self_attempts
  /\ UNCHANGED <<messages_for_chain_update, markov_chain, primary, backup, updvars,
                 task_alive, nrecords, histvars, last_op, cachevars, othervars>>

chat ==
  \/ \E seed \in {Some(StrEmpty), Some(StrHello)} : ChatCall(seed)
  \/ GenRound
  \/ GenFinish
  \/ ChatReply

\* /chat next to the learning of new messages
NextChat ==
  \/ \E id \in MessageIds : listen_to_messages(id, StrHelloWorld)
  \/ \E p \in Procs : update_markov_chain(p)
  \/ chat

SpecChat == Init /\ [][NextChat]_vars

\* ------------------------------------------------ SlashbotCog: the cache
\* list.pop(0)
ListPopFirst(list) == [item |-> Head(list), rest |-> Tail(list)]

\* list.pop()
ListPop(list) == [item |-> list[Len(list)], rest |-> SubSeq(list, 1, Len(list) - 1)]

\* a get that also generates when the list is low
NeedsGenerationWhenLow(lists, seed) ==
  seed \notin DOMAIN lists \/ Len(lists[seed]) < PREGEN_REGENERATE_LIMIT

\* lines 87 and 94: no list for the seed word, or an IndexError from pop()
NeedsGeneration(lists, seed) ==
  seed \notin DOMAIN lists \/ lists[seed] = <<>>

CacheUnchanged ==
  UNCHANGED <<messages_for_chain_update, markov_chain, primary, backup, updvars,
              task_alive, nrecords, histvars, last_op, genvars, othervars>>

CacheOp(op, seed, returned, generated) ==
  [op |-> op, prev |-> cache_op.op, seed |-> seed, before |-> markov_sentences,
   returned |-> returned, generated |-> generated]

\* Weather.cog_load: full lists when generation is on, empty ones when off
cog_load ==
  /\ running = Idle
  /\ DOMAIN markov_sentences = {}
  /\ IF markov_gen_on
       THEN markov_sentences' \in
              generate_sentences_for_seed_words(KnownSeeds, PREGEN_MARKOV_SENTENCES_AMOUNT)
       ELSE markov_sentences' = [seed \in KnownSeeds |-> <<>>]
  /\ cache_op' = CacheOp("load", "", <<>>, FALSE)
  /\ UNCHANGED <<running, markov_gen_on, refill_pc, refill_todo>>
  /\ CacheUnchanged

\* lines 71-97
get_generated_sentence(seed) ==
  /\ running = Idle
  /\ IF NeedsGeneration(markov_sentences, seed)
       THEN /\ \E fresh \in PregenSentences :
                 cache_op' = CacheOp("get", seed, fresh, TRUE)
            /\ markov_sentences' = markov_sentences
       ELSE /\ cache_op' = CacheOp("get", seed, ListPop(markov_sentences[seed]).item, FALSE)
            /\ markov_sentences' =
                 [markov_sentences EXCEPT ![seed] = ListPop(markov_sentences[seed]).rest]
  /\ UNCHANGED <<running, markov_gen_on, refill_pc, refill_todo>>
  /\ CacheUnchanged

\* a refill that does not look at markov_gen_on
RefillEnabledAlways == Cardinality(DOMAIN markov_sentences) # 0

\* lines 52-55
RefillEnabled == markov_gen_on /\ Cardinality(DOMAIN markov_sentences) # 0

\* a test with <= in place of <
AtOrBelowLimit(list) == Len(list) <= PREGEN_REGENERATE_LIMIT

\* line 58
BelowLimit(list) == Len(list) < PREGEN_REGENERATE_LIMIT

\* a refill that awaits each list
RefillAwaitsEachList(label) == label = "sleeping" \/ label = "loop"

\* the refill task is parked only in the sleep between two runs: lines 52-62
\* hold no await
RefillSuspends(label) == label = "sleeping"

RefillCanRun ==
  running = "refill" \/ (running = Idle /\ RefillSuspends(refill_pc))

RefillGoto(label) ==
  /\ refill_pc' = label
  /\ running' = (IF RefillSuspends(label) THEN Idle ELSE "refill")

\* dict.items(): the seed words in the order of their insertion
items(lists) == SelectSeq(SeedOrder, LAMBDA seed : seed \in DOMAIN lists)

\* lines 49-55: the timer has run out and the body starts
RefillTick ==
  /\ refill_pc = "sleeping"
  /\ RefillCanRun
  /\ IF RefillEnabled
       THEN /\ RefillGoto("loop")
            /\ refill_todo' = items(markov_sentences)
            /\ cache_op' = CacheOp("refilling", "", <<>>, FALSE)
       ELSE /\ RefillGoto("sleeping")
            /\ refill_todo' = <<>>
            /\ cache_op' = CacheOp("refill_off", "", <<>>, FALSE)
  /\ UNCHANGED <<markov_sentences, markov_gen_on>>
  /\ CacheUnchanged

\* a refill that puts the fresh list behind the sentences still queued
RefillSeedExtends ==
  /\ refill_pc = "loop"
  /\ RefillCanRun
  /\ refill_todo # <<>>
  /\ LET seed == Head(refill_todo)
     IN IF BelowLimit(markov_sentences[seed])
          THEN \E list \in generate_list_of_sentences_with_seed_word(
                             seed, PREGEN_MARKOV_SENTENCES_AMOUNT) :
                 markov_sentences' = [markov_sentences EXCEPT ![seed] = @ \o list]
          ELSE markov_sentences' = markov_sentences
  /\ refill_todo' = Tail(refill_todo)
  /\ RefillGoto("loop")
  /\ UNCHANGED <<markov_gen_on, cache_op>>
  /\ CacheUnchanged

\* lines 57-62: one seed word of the loop
RefillSeed ==
  /\ refill_pc = "loop"
  /\ RefillCanRun
  /\ refill_todo # <<>>
  /\ LET seed == Head(refill_todo)
     IN IF BelowLimit(markov_sentences[seed])
          THEN \E list \in generate_list_of_sentences_with_seed_word(
                             seed, PREGEN_MARKOV_SENTENCES_AMOUNT) :
                 markov_sentences' = [markov_sentences EXCEPT ![seed] = list]
          ELSE markov_sentences' = markov_sentences
  /\ refill_todo' = Tail(refill_todo)
  /\ RefillGoto("loop")
  /\ UNCHANGED <<markov_gen_on, cache_op>>
  /\ CacheUnchanged

\* the loop is through and the task sleeps until the next tick
RefillEnd ==
  /\ refill_pc = "loop"
  /\ RefillCanRun
  /\ refill_todo = <<>>
  /\ RefillGoto("sleeping")
  /\ cache_op' = [cache_op EXCEPT !.op = IF @ = "refilling" THEN "refill" ELSE "refill_cut"]
  /\ UNCHANGED <<markov_sentences, markov_gen_on, refill_todo>>
  /\ CacheUnchanged

regenerate_markov_sentences ==
  \/ RefillTick
  \/ RefillSeed
  \/ RefillEnd

NextCache ==
  \/ cog_load
  \/ \E seed \in AskedSeeds : get_generated_sentence(seed)
  \/ regenerate_markov_sentences

SpecCache == InitCache /\ [][NextCache]_vars

\* ------------------------------------------------- markovify.combine alone
\* the models the merge is tried on: chains with and without common
\* sentences, in equal and in unequal numbers
MergeModels ==
  {EmptyBag, SeedChain, OldChain, SeedChain (+) SeedChain, SeedChain (+) OldChain}

InitMerge ==
  /\ InitSpam({Absent}) /\ InitCog(FALSE) /\ InitOthers("combine")
  /\ \E A \in MergeModels, B \in MergeModels, C \in MergeModels : models = <<A, B, C>>
  /\ tables = <<>>

\* the three ways of merging A, B and C
combine_models ==
  /\ tables = <<>>
  /\ LET A == models[1]
         B == models[2]
         C == models[3]
     IN tables' = [flat |-> merge(<<A, B, C>>),
                   nested |-> merge(<<merge(<<A, B>>), C>>),
                   swapped |-> merge(<<C, merge(<<B, A>>)>>)]
  /\ UNCHANGED models
  /\ Frame("combine")

SpecMerge == InitMerge /\ [][combine_models]_vars

\* ------------------------------------------------------ join_list_max_chars
MaxWords == 3
MaxChars == 8

StrComma == <<",", " ">>
\* the lists of words the function is tried on
JoinLists ==
  UNION {[1..n -> {<<"a">>, <<"b", "c">>, <<"d", "e", "f", "g">>}] : n \in 0..MaxWords}

\* Python `s.endswith(suffix)`
EndsWith(s, suffix) ==
  Len(suffix) <= Len(s) /\ SubSeq(s, Len(s) - Len(suffix) + 1, Len(s)) = suffix

\* util.py lines 99-105: the loop over the words; current_length adds up the
\* lengths of the words
RECURSIVE JoinLoop(_, _, _, _)
JoinLoop(todo, res, current_length, limit) ==
  IF todo = <<>> THEN res
  ELSE IF current_length + Len(Head(todo)) > limit - 3
         THEN (IF res # <<>> THEN res \o StrDots ELSE res)
         ELSE JoinLoop(Tail(todo), res \o Head(todo) \o StrComma,
                       current_length + Len(Head(todo)), limit)

\* util.py lines 96-111
join_list_max_chars(ws, limit) ==
  LET res == JoinLoop(ws, <<>>, 0, limit)
  IN IF EndsWith(res, StrComma) THEN SubSeq(res, 1, Len(res) - 2) ELSE res

InitJoinCall ==
  /\ InitSpam({Absent}) /\ InitCog(FALSE) /\ InitOthers("join")
  /\ words \in JoinLists
  /\ max_chars \in 0..MaxChars
  /\ joined = None

\* the call returns
join_call ==
  /\ joined = None
  /\ joined' = Some(join_list_max_chars(words, max_chars))
  /\ UNCHANGED <<words, max_chars>>
  /\ Frame("join")

SpecJoin == InitJoinCall /\ [][join_call]_vars

\* -------------------------------------------- update_channel_message_history
AI_CHAT_TOKEN_WINDOW_SIZE == 3
MaxPosted == 3

\* what get_token_count can give: nothing, a little, and more than the window
TokenCounts == {0, 1, 2, AI_CHAT_TOKEN_WINDOW_SIZE + 1}

\* ChannelHistory.tokens: the token counts of the messages held, added up
RECURSIVE tokens(_)
tokens(history) ==
  IF history = <<>> THEN 0 ELSE Head(history).tokens + tokens(Tail(history))

\* ChannelHistory.add_message
add_message(history, message) == Append(history, message)

\* ChannelHistory.remove_message(index), index counted from 0
remove_message(history, index) ==
  SubSeq(history, 1, index) \o SubSeq(history, index + 2, Len(history))

\* lines 182-183: the message is counted and added
HistoryCall(ch, count) ==
  /\ history_pc = "idle"
  /\ nposted < MaxPosted
  /\ nposted' = nposted + 1
  /\ history_id' = ch
  /\ history_before' = [histories |-> channel_histories,
                        added |-> <<[id |-> nposted + 1, tokens |-> count]>>]
  /\ channel_histories' =
       [channel_histories EXCEPT
          ![ch] = add_message(@, [id |-> nposted + 1, tokens |-> count])]
  /\ history_pc' = "loop"
  /\ Frame("history")

\* a loop that takes out the newest message
HistoryRemoveNewest ==
  /\ history_pc = "loop"
  /\ tokens(channel_histories[history_id]) > AI_CHAT_TOKEN_WINDOW_SIZE
  /\ channel_histories' =
       [channel_histories EXCEPT ![history_id] = remove_message(@, Len(@) - 1)]
  /\ UNCHANGED <<history_pc, history_id, history_before, nposted>>
  /\ Frame("history")

\* lines 186-187: one round of the loop
HistoryRemove ==
  /\ history_pc = "loop"
  /\ tokens(channel_histories[history_id]) > AI_CHAT_TOKEN_WINDOW_SIZE
  /\ channel_histories' =
       [channel_histories EXCEPT ![history_id] = remove_message(@, 0)]
  /\ UNCHANGED <<history_pc, history_id, history_before, nposted>>
  /\ Frame("history")

\* line 186: the test fails and the call returns
HistoryReturn ==
  /\ history_pc = "loop"
  /\ ~(tokens(channel_histories[history_id]) > AI_CHAT_TOKEN_WINDOW_SIZE)
  /\ history_pc' = "idle"
  /\ UNCHANGED <<channel_histories, history_id, history_before, nposted>>
  /\ Frame("history")

update_channel_message_history ==
  \/ \E ch \in Channels, count \in TokenCounts : HistoryCall(ch, count)
  \/ HistoryRemove
  \/ HistoryReturn

SpecWindow == InitQuiet /\ [][update_channel_message_history]_vars

\* --------------------------------------------------- send_response_to_prompt
MaxPrompts == 3

\* Conversation.add_message: the message goes to the end
AddMessage(conv, role, id) == Append(conv, [role |-> role, prompt |-> id])

\* how the awaited generate_text_from_llm can end: with a response, with an
\* exception that carries a `response` mapping, or with any other exception
LlmOutcomes == {"response", "error_with_response", "error"}

\* lines 233-237: the copy is taken, then the handler waits for the images
PromptCall(h) ==
  /\ prompt_pc[h] \in {"idle", "done", "raised"}
  /\ nprompts < MaxPrompts
  /\ nprompts' = nprompts + 1
  /\ prompt_id' = [prompt_id EXCEPT ![h] = nprompts + 1]
  /\ conversation_copy' = [conversation_copy EXCEPT ![h] = conversation]
  /\ prompt_pc' = [prompt_pc EXCEPT ![h] = "images"]
  /\ llm' = [llm EXCEPT ![h] = "none"]
  /\ replied' = [replied EXCEPT ![h] = "none"]
  /\ UNCHANGED conversation
  /\ Frame("prompt")

\* lines 243-249: the prompt goes into the copy, then the handler waits for
\* the model
PromptAsk(h) ==
  /\ prompt_pc[h] = "images"
  /\ conversation_copy' =
       [conversation_copy EXCEPT ![h] = AddMessage(@, "user", prompt_id[h])]
  /\ prompt_pc' = [prompt_pc EXCEPT ![h] = "llm"]
  /\ UNCHANGED <<conversation, prompt_id, llm, replied, nprompts>>
  /\ Frame("prompt")

\* lines 245-260: the answer is there and is sent; or the call has raised and
\* the handler reads exc.response["error"] for its log line, which is an
\* AttributeError when the exception has no `response`
PromptAnswered(h) ==
  /\ prompt_pc[h] = "llm"
  /\ \E outcome \in LlmOutcomes :
       /\ llm' = [llm EXCEPT ![h] = outcome]
       /\ prompt_pc' = [prompt_pc EXCEPT ![h] =
            CASE outcome = "response" -> "sending"
              [] outcome = "error_with_response" -> "fallback"
              [] OTHER -> "raised"]
  /\ UNCHANGED <<conversation, conversation_copy, prompt_id, replied, nprompts>>
  /\ Frame("prompt")

\* lines 255-260: the Markov sentence has been sent
PromptFallback(h) ==
  /\ prompt_pc[h] = "fallback"
  /\ replied' = [replied EXCEPT ![h] = "markov"]
  /\ prompt_pc' = [prompt_pc EXCEPT ![h] = "done"]
  /\ UNCHANGED <<conversation, conversation_copy, prompt_id, llm, nprompts>>
  /\ Frame("prompt")

\* lines 262-269: the answer has been sent; prompt and answer go into the
\* shared conversation
PromptSent(h) ==
  /\ prompt_pc[h] = "sending"
  /\ replied' = [replied EXCEPT ![h] = "llm"]
  /\ conversation' =
       AddMessage(AddMessage(conversation, "user", prompt_id[h]), "assistant", prompt_id[h])
  /\ prompt_pc' = [prompt_pc EXCEPT ![h] = "done"]
  /\ UNCHANGED <<conversation_copy, prompt_id, llm, nprompts>>
  /\ Frame("prompt")

send_response_to_prompt(h) ==
  \/ PromptCall(h)
  \/ PromptAsk(h)
  \/ PromptAnswered(h)
  \/ PromptFallback(h)
  \/ PromptSent(h)

SpecPrompt == InitQuiet /\ [][\E h \in Handlers : send_response_to_prompt(h)]_vars

\* ------------------------------------------------------------ check_reminders
MaxReminders == 2
MaxTicks == 2

\* the event loop is free for a command while the task sleeps or waits in a
\* send, and after the task has ended
RemindParked == remind_pc \in {"sleeping", "sending_dm", "sending_here", "raised"}

\* dict.pop(key, None)
PopReminder(dict, id) == [k \in (DOMAIN dict) \ {id} |-> dict[k]]

\* list(dict.items()): the ids in the order they were set
RECURSIVE ItemsFrom(_, _)
ItemsFrom(dict, id) ==
  IF id > MaxReminders THEN <<>>
  ELSE (IF id \in DOMAIN dict THEN <<[id |-> id, whofor |-> dict[id]]>> ELSE <<>>)
         \o ItemsFrom(dict, id + 1)

\* lines 130-142: the reminder is stored under a free key and saved
set_reminder(whofor) ==
  /\ RemindParked
  /\ nset < MaxReminders
  /\ nset' = nset + 1
  /\ reminders' = [k \in (DOMAIN reminders) \cup {nset + 1} |->
                     IF k = nset + 1 THEN whofor ELSE reminders[k]]
  /\ reminders_file' = reminders'
  /\ UNCHANGED <<passed, remind_pc, remind_todo, deliveries, nticks>>
  /\ Frame("remind")

\* lines 167-176
forget_reminder(id) ==
  /\ RemindParked
  /\ id \in DOMAIN reminders
  /\ reminders' = PopReminder(reminders, id)
  /\ reminders_file' = reminders'
  /\ UNCHANGED <<passed, remind_pc, remind_todo, deliveries, nticks, nset>>
  /\ Frame("remind")

\* the clock goes past the `when` of a reminder
clock_passes(id) ==
  /\ RemindParked
  /\ id \in 1..nset
  /\ id \notin passed
  /\ passed' = passed \cup {id}
  /\ UNCHANGED <<reminders, reminders_file, remind_pc, remind_todo, deliveries, nticks, nset>>
  /\ Frame("remind")

\* lines 210-213: a tick begins with a copy of the items
TickStart ==
  /\ remind_pc = "sleeping"
  /\ nticks < MaxTicks
  /\ nticks' = nticks + 1
  /\ remind_todo' = ItemsFrom(reminders, 1)
  /\ remind_pc' = "loop"
  /\ UNCHANGED <<reminders, reminders_file, passed, deliveries, nset>>
  /\ Frame("remind")

\* lines 228-237: bot.get_channel gives the channel or None, and None has no
\* send
ToChannel(found) == IF found THEN "sending_here" ELSE "raised"

\* lines 214-237, up to the first send: a reminder that is not due or whose
\* user bot.get_user does not find is passed over
TickVisit ==
  /\ remind_pc = "loop"
  /\ remind_todo # <<>>
  /\ LET item == Head(remind_todo)
     IN \E user_found \in BOOLEAN, channel_found \in BOOLEAN :
          IF item.id \notin passed \/ ~user_found
            THEN /\ remind_todo' = Tail(remind_todo)
                 /\ remind_pc' = "loop"
            ELSE /\ remind_todo' = remind_todo
                 /\ remind_pc' = (IF item.whofor \in {"dm", "both"}
                                    THEN "sending_dm" ELSE ToChannel(channel_found))
  /\ UNCHANGED <<reminders, reminders_file, passed, deliveries, nticks, nset>>
  /\ Frame("remind")

\* lines 239-240
Remove(id) ==
  /\ reminders' = PopReminder(reminders, id)
  /\ reminders_file' = reminders'
  /\ remind_todo' = Tail(remind_todo)
  /\ remind_pc' = "loop"

\* line 226 has sent; lines 228-240
TickDmSent ==
  /\ remind_pc = "sending_dm"
  /\ LET item == Head(remind_todo)
     IN /\ deliveries' = deliveries \cup {[id |-> item.id, to |-> "dm", tick |-> nticks]}
        /\ IF item.whofor = "both"
             THEN /\ \E channel_found \in BOOLEAN : remind_pc' = ToChannel(channel_found)
                  /\ UNCHANGED <<reminders, reminders_file, remind_todo>>
             ELSE Remove(item.id)
  /\ UNCHANGED <<passed, nticks, nset>>
  /\ Frame("remind")

\* line 237 has sent; lines 239-240
TickHereSent ==
  /\ remind_pc = "sending_here"
  /\ LET item == Head(remind_todo)
     IN /\ deliveries' = deliveries \cup {[id |-> item.id, to |-> "here", tick |-> nticks]}
        /\ Remove(item.id)
  /\ UNCHANGED <<passed, nticks, nset>>
  /\ Frame("remind")

\* the loop is through and the task sleeps until the next tick
TickEnd ==
  /\ remind_pc = "loop"
  /\ remind_todo = <<>>
  /\ remind_pc' = "sleeping"
  /\ UNCHANGED <<reminders, reminders_file, passed, remind_todo, deliveries, nticks, nset>>
  /\ Frame("remind")

check_reminders ==
  \/ TickStart
  \/ TickVisit
  \/ TickDmSent
  \/ TickHereSent
  \/ TickEnd

SpecRemind ==
  /\ InitQuiet
  /\ [][\/ \E whofor \in {"dm", "here", "both"} : set_reminder(whofor)
        \/ \E id \in 1..MaxReminders : forget_reminder(id)
        \/ \E id \in 1..MaxReminders : clock_passes(id)
        \/ check_reminders]_vars

\* ------------------------------------------------------------------ Bot.close
MaxCleanup == 2

\* an awaited cleanup function returns, or raises as the chain update does
\* when it fails without an interaction
CleanupOutcomes == {"returned", "raised"}

\* lines 56-66
add_to_cleanup(function, args) ==
  /\ close_pc = "up"
  /\ Len(cleanup_functions) < MaxCleanup
  /\ cleanup_functions' = Append(cleanup_functions, [function |-> function, args |-> args])
  /\ UNCHANGED <<close_pc, close_index, called, framework_closed>>
  /\ Frame("close")

\* line 70: close is called and the loop begins
CloseStart ==
  /\ close_pc = "up"
  /\ close_pc' = "loop"
  /\ close_index' = 1
  /\ UNCHANGED <<cleanup_functions, called, framework_closed>>
  /\ Frame("close")

\* lines 70-75: the next function is called, with its arguments when it has
\* any, and awaited
CloseCall ==
  /\ close_pc = "loop"
  /\ close_index <= Len(cleanup_functions)
  /\ LET function == cleanup_functions[close_index]
     IN called' = Append(called, [function |-> function.function,
                                  with_args |-> function.args # <<>>])
  /\ close_pc' = "awaiting"
  /\ UNCHANGED <<cleanup_functions, close_index, framework_closed>>
  /\ Frame("close")

\* the awaited function has ended; an exception leaves close
CloseAwaited ==
  /\ close_pc = "awaiting"
  /\ \E outcome \in CleanupOutcomes :
       IF outcome = "returned"
         THEN close_pc' = "loop" /\ close_index' = close_index + 1
         ELSE close_pc' = "raised" /\ close_index' = close_index
  /\ UNCHANGED <<cleanup_functions, called, framework_closed>>
  /\ Frame("close")

\* line 76
CloseSuper ==
  /\ close_pc = "loop"
  /\ close_index > Len(cleanup_functions)
  /\ framework_closed' = TRUE
  /\ close_pc' = "closed"
  /\ UNCHANGED <<cleanup_functions, close_index, called>>
  /\ Frame("close")

close ==
  \/ CloseStart
  \/ CloseCall
  \/ CloseAwaited
  \/ CloseSuper

\* what is registered is the chain update of line 132, or another function
SpecClose ==
  /\ InitQuiet
  /\ [][\/ \E function \in {"learn", "other"}, args \in {<<>>, <<None>>} :
             add_to_cleanup(function, args)
        \/ close]_vars

\* =================================================================== claims
Failed == Raised \cup {"build_error"}
WriteFailed == {"raised_open", "raised_dump"}
Returning(p) == pc[p] = "return"

\* C1: the string returned by generate_sentence contains neither "@here"
\* nor "@everyone", whatever the seed and whatever the chain produced.
C1_NoBroadcastMention ==
  gen_pc = "done" =>
    ~Contains(StrAtHere, sentence[1]) /\ ~Contains(StrAtEveryone, sentence[1])

\* C2: when an update fails (build, backup or write), the buffer still holds
\* every entry it held when the update took its snapshot.
C2_BufferKeptOnFailure ==
  \A p \in Procs :
    Returning(p) /\ result[p] \in Failed => messages_for_chain_update = snap[p].buffer

\* C3: whenever no update is executing, the in-memory chain is the chain that
\* was last persisted completely, or the chain loaded at start.
C3_ChainIsPersistedChain ==
  (\A p \in Procs : pc[p] = "idle") => markov_chain = persisted

\* C4: once the primary artifact exists, the primary or the backup is a
\* complete pickled chain in every state, also after failed writes.
C4_OneCompleteCopy ==
  primary # Absent => IsChain(primary) \/ IsChain(backup)

\* C5: when the write of the merged chain fails, the backup is the copy of
\* the primary before the update, the primary is still that file, and the
\* in-memory chain that generate reads is the chain before the update.
C5_WriteFailureKeepsModel ==
  \A p \in Procs :
    Returning(p) /\ result[p] \in WriteFailed =>
      /\ backup = snap[p].primary
      /\ primary = snap[p].primary
      /\ markov_chain = snap[p].chain

\* C6: no update invocation, manual or periodic, ends in a raised exception,
\* and the periodic task is never stopped by one.
C6_FailuresAreResults ==
  /\ \A p \in Procs : result[p] \notin Raised
  /\ task_alive

\* the filter as the documentation states it: non-empty, first character not
\* a punctuation character, no "@"
Punctuation == {string_punctuation[k] : k \in 1..Len(string_punctuation)}
Trainable(text) ==
  /\ Len(text) > 0
  /\ text[1] \notin Punctuation
  /\ \A k \in 1..Len(text) : text[k] # "@"
RECURSIVE Drained(_)
Drained(buf) ==
  IF buf = <<>> THEN <<>>
  ELSE (IF Trainable(Head(buf).content) THEN <<Head(buf).content>> ELSE <<>>)
         \o Drained(Tail(buf))

\* C7: clean_up_messages returns exactly the buffered texts that are
\* non-empty, do not begin with a punctuation character and hold no "@".
C7_DrainFilter ==
  \A p \in Procs : snap[p].taken => messages[p] = Drained(snap[p].buffer)

\* C8: every delete notice removes the buffer entry of its message id when
\* there is one, and leaves the buffer as it was when there is none.
C8_DiscardRemoves ==
  last_op.op = "delete" => messages_for_chain_update = Pop(last_op.before, last_op.id)

\* C9: under every interleaving of the manual and the periodic update no
\* recorded message is merged into the chain by more than one update, the
\* chain is the loaded chain plus the merged snapshots, and the buffer holds
\* one entry per message id.
C9_NoDoubleMerge ==
  /\ \A n \in BagToSet(merged) : CopiesIn(n, merged) <= 1
  /\ markov_chain = boot_chain (+) learned
  /\ Cardinality(Ids(messages_for_chain_update)) = Len(messages_for_chain_update)

\* C9 witness: the periodic update has merged while the manual call is
\* parked at its defer.
C9_Witness ==
  /\ pc["m"] = "deferred" /\ pc["p"] = "dump"
  /\ merged # EmptyBag

InSection == {"clean", "copy", "build", "merge", "open", "dump", "return"}
C11_GenerateSeesWholeChain ==
  gen_pc \in {"loop", "finish"} => markov_chain = boot_chain (+) learned

\* C11 witness: generate runs while a manual update that has merged is still
\* in flight, waiting for its reply.
C11_Witness ==
  /\ gen_pc = "loop"
  /\ pc["m"] = "replying" /\ result["m"] = "learned"

\* C12: when the model construction fails, the in-memory chain, the primary
\* artifact and the buffer are what they were when the snapshot was taken.
C12_BuildFailureChangesNothing ==
  [][\A p \in Procs :
       pc[p] = "build" /\ pc'[p] \in {"replying", "return"} =>
         /\ markov_chain' = snap[p].chain
         /\ primary' = snap[p].primary
         /\ messages_for_chain_update' = snap[p].buffer]_vars

\* C12 witness: the periodic update has ended in a failed model construction.
C12_Witness ==
  pc["p"] = "return" /\ result["p"] = "raised_build"

\* C13: the steps of an update up to the test of its snapshot change neither
\* the chain nor the two files nor the buffer, and with an empty buffer or an
\* empty snapshot the update ends there with the "nothing to learn" result.
C13_NothingToLearnIsNoOp ==
  [][\A p \in Procs :
       pc[p] \in {"idle", "deferred", "clean"} /\ pc'[p] # pc[p] =>
         /\ markov_chain' = markov_chain
         /\ primary' = primary
         /\ backup' = backup
         /\ messages_for_chain_update' = messages_for_chain_update
         /\ (\/ pc[p] = "idle" /\ Len(messages_for_chain_update) = 0
             \/ pc[p] # "idle" /\ clean_up_messages(messages_for_chain_update) = <<>>)
              => pc'[p] \in {"replying", "return"} /\ result'[p] = "nothing_to_learn"]_vars

\* C13 witness: the periodic update has ended on an empty snapshot.
C13_Witness ==
  pc["p"] = "return" /\ result["p"] = "nothing_to_learn" /\ snap["p"].taken

\* lines 200-202: the count in the reply and in the log
LearnedCount(p) == Len(messages[p])

\* C14: a successful update leaves merge(previous chain, chain of the
\* snapshot) in memory and in the primary artifact, and reports the number of
\* strings of the snapshot.
C14_SuccessfulUpdate ==
  [][\A p \in Procs :
       pc[p] = "dump" /\ result'[p] = "learned" =>
         LET snapshot == clean_up_messages(snap[p].buffer)
             merged_chain == combine(snap[p].chain, NewlineText(snapshot))
         IN /\ markov_chain' = merged_chain
            /\ primary' = Pickled(merged_chain)
            /\ LearnedCount(p) = Len(snapshot)]_vars

\* C14 witness: the periodic update has ended with the chain learned.
C14_Witness ==
  pc["p"] = "return" /\ result["p"] = "learned"


\* a get that took a sentence from the list of its seed word
TookFromList ==
  /\ cache_op.op = "get"
  /\ cache_op.seed \in DOMAIN cache_op.before
  /\ cache_op.before[cache_op.seed] # <<>>

Without(list, i) == SubSeq(list, 1, i - 1) \o SubSeq(list, i + 1, Len(list))

\* C16: a get from a list that is not empty generates nothing, and removes and
\* returns exactly one sentence of that list; a get for an unknown seed word or
\* from an empty list returns a generated sentence and changes no list
C16_GetGeneratesOnlyWhenEmpty ==
  cache_op.op = "get" =>
    IF TookFromList
      THEN /\ ~cache_op.generated
           /\ \E i \in 1..Len(cache_op.before[cache_op.seed]) :
                /\ cache_op.before[cache_op.seed][i] = cache_op.returned
                /\ markov_sentences =
                     [cache_op.before EXCEPT ![cache_op.seed] = Without(@, i)]
      ELSE /\ cache_op.generated
           /\ cache_op.returned \in PregenSentences
           /\ markov_sentences = cache_op.before

\* a get that took the last sentence a list held
C16_Witness ==
  /\ TookFromList
  /\ Len(cache_op.before[cache_op.seed]) = 1
  /\ ~cache_op.generated
  /\ markov_sentences[cache_op.seed] = <<>>

\* C17: after a refill with generation on, a list that was shorter than
\* PREGEN_REGENERATE_LIMIT holds PREGEN_MARKOV_SENTENCES_AMOUNT sentences and
\* every other list is as it was
C17_RefillTopsUp ==
  cache_op.op = "refill" =>
    /\ DOMAIN markov_sentences = DOMAIN cache_op.before
    /\ \A seed \in DOMAIN cache_op.before :
         IF Len(cache_op.before[seed]) < PREGEN_REGENERATE_LIMIT
           THEN Len(markov_sentences[seed]) = PREGEN_MARKOV_SENTENCES_AMOUNT
           ELSE markov_sentences[seed] = cache_op.before[seed]

\* a refill that found one list short and one list at the limit
C17_Witness ==
  /\ cache_op.op = "refill"
  /\ \E short, full \in DOMAIN cache_op.before :
       /\ Len(cache_op.before[short]) < PREGEN_REGENERATE_LIMIT
       /\ Len(markov_sentences[short]) = PREGEN_MARKOV_SENTENCES_AMOUNT
       /\ Len(cache_op.before[full]) = PREGEN_REGENERATE_LIMIT
       /\ markov_sentences[full] = cache_op.before[full]

\* C18: with markov_gen_on false every list is empty in every state, the
\* refill adds nothing, and every get returns a generated sentence
C18_DisabledKeepsListsEmpty ==
  ~markov_gen_on =>
    /\ \A seed \in DOMAIN markov_sentences : markov_sentences[seed] = <<>>
    /\ refill_pc = "sleeping"
    /\ cache_op.op = "get" => cache_op.generated

\* generation is off, the refill has run, and a get for a seed word of the cog
\* followed
C18_Witness ==
  /\ ~markov_gen_on
  /\ cache_op.op = "get"
  /\ cache_op.prev = "refill_off"
  /\ cache_op.seed \in DOMAIN markov_sentences
  /\ cache_op.generated

C20_UnseededResultBounded ==
  gen_pc = "done" /\ Falsy(seed_word) =>
    /\ sentence # None
    /\ Len(sentence[1]) > 0
    /\ Len(sentence[1]) <= max_length

\* an unseeded call whose walk ended in a sentence too long, cut and dotted
C20_Witness ==
  /\ gen_pc = "done"
  /\ seed_word = None
  /\ Len(sentence[1]) = cut_length + Len(StrDots)
  /\ SubSeq(sentence[1], cut_length + 1, cut_length + 3) = StrDots

\* an unseeded call on the chain no file was there for: every walk may end in
\* nothing, and the fallback text is returned
C20_WitnessFallback ==
  /\ gen_pc = "done"
  /\ seed_word = None
  /\ attempt = 1
  /\ sentence = Some(StrNoIdea)

\* C21: whatever the seed, generate_sentence returns a string that is not empty
C21_ResultNeverEmpty ==
  gen_pc = "done" => sentence # None /\ Len(sentence[1]) > 0

\* C22: generate_sentence returns at most 1024 characters: a trimmed sentence
\* that is longer comes back as its first 1020 characters and "...", and any
\* other comes back as it is
C22_CutToLimit ==
  [][gen_pc = "finish" /\ gen_pc' = "done" =>
       LET trimmed == strip(sentence[1])
           out == sentence'[1]
       IN /\ Len(out) <= max_length
          /\ IF Len(trimmed) > max_length
               THEN /\ SubSeq(out, 1, Len(out) - 3) = SubSeq(trimmed, 1, cut_length)
                    /\ SubSeq(out, Len(out) - 2, Len(out)) = StrDots
               ELSE out = trimmed]_vars

\* a sentence of exactly 1024 characters has come back whole
C22_Witness ==
  gen_pc = "done" /\ sentence = Some(StrAtLimit)

\* C23: the loop of generate_sentence makes at most self.attempts rounds, goes
\* on only after a round that did not pass the mention check, and every call
\* comes to its end
C23_LoopBounded ==
  /\ [](/\ attempt <= self_attempts
        /\ gen_pc = "loop" =>
             /\ attempt < self_attempts
             /\ attempt > 0 => ~Passes(sentence[1], mentions))
  /\ (gen_pc \in {"loop", "finish"} ~> gen_pc \in {"done", "raised"})

\* ten rounds, none of which passed the mention check
C23_Witness ==
  /\ gen_pc = "finish"
  /\ attempt = attempts
  /\ self_attempts = attempts
  /\ ~Passes(sentence[1], mentions)

\* a round of the loop has just been made for a seed of one word
RoundForOneWord ==
  /\ gen_pc \in {"loop", "finish"}
  /\ attempt > 0
  /\ ~Falsy(seed_word)
  /\ WordCount(seed_word[1]) = 1

\* C24 as stated: when the seeded walk gives no sentence, by an exception or
\* by an empty result, the unconstrained walk is made, and the seed word is
\* taken only if that walk gave nothing
C24_FallsBackOnNothing ==
  RoundForOneWord /\ (walked.raised \/ Falsy(walked.seeded)) =>
    /\ walked.made
    /\ sentence = seed_word => Falsy(walked.unconstrained)

\* C24 amended: when the seeded walk raises, the unconstrained walk is made
\* and the seed word is taken only if that walk gave nothing; when the seeded
\* walk returns nothing without raising, the seed word is taken and no
\* unconstrained walk is made
C24_FallsBackOnException ==
  RoundForOneWord /\ (walked.raised \/ Falsy(walked.seeded)) =>
    IF walked.raised
      THEN /\ walked.made
           /\ sentence = (IF Falsy(walked.unconstrained) THEN seed_word
                          ELSE walked.unconstrained)
      ELSE /\ ~walked.made
           /\ sentence = seed_word

\* the seed word is in no state, and the unconstrained walk gave nothing
C24_Witness ==
  /\ RoundForOneWord
  /\ walked.raised
  /\ walked.made
  /\ Falsy(walked.unconstrained)
  /\ sentence = seed_word

\* C25: no call of generate_sentence ends in an error
C25_NeverRaises ==
  gen_pc # "raised"

\* the seed is one word that stands in a sentence of the chain
SeedInCorpus ==
  /\ ~Falsy(seed_word)
  /\ WordCount(seed_word[1]) = 1
  /\ \E t \in BagToSet(markov_chain) : strip(seed_word[1]) \in split(t)

\* C26 as stated: for a seed word of the corpus the sentence returned holds
\* the seed word
C26_HoldsSeedWord ==
  gen_pc = "done" /\ SeedInCorpus => strip(seed_word[1]) \in split(sentence[1])

\* C26 amended: for a seed word of the corpus the sentence returned holds the
\* seed word, or is the first 1020 characters and "..." of a sentence of more
\* than 1024 characters that holds it
C26_HoldsSeedWordOrIsCut ==
  gen_pc = "done" /\ SeedInCorpus =>
    \/ strip(seed_word[1]) \in split(sentence[1])
    \/ \E t \in BagToSet(markov_chain) :
         /\ strip(seed_word[1]) \in split(t)
         /\ Len(t) > max_length
         /\ sentence[1] = SubSeq(t, 1, cut_length) \o StrDots

\* "hello" was asked for and a sentence of the chain with it came back
C26_Witness ==
  /\ gen_pc = "done"
  /\ seed_word = Some(StrHello)
  /\ sentence = Some(StrHelloWorld)
  /\ walked.seeded = Some(StrHelloWorld)

\* C27: no step of generate_sentence changes the chain, the buffer, the two
\* files or a list of pregenerated sentences
C27_GenerateChangesNothing ==
  [][genvars' # genvars =>
       UNCHANGED <<markov_chain, messages_for_chain_update, primary, backup,
                   markov_sentences>>]_vars

\* a sentence was made while the buffer held a message and the chain had
\* learned one
C27_Witness ==
  /\ gen_pc = "done"
  /\ messages_for_chain_update # <<>>
  /\ learned # EmptyBag

\* C28: listen_to_messages stores the text of every message under its id,
\* whatever the text is: an earlier entry of that id is replaced, the entries
\* of the other ids stay as they were, and no id has two entries
C28_RecordStoresUnderId ==
  last_op.op = "record" =>
    LET buf == messages_for_chain_update
        before == last_op.before
    IN /\ Ids(buf) = Ids(before) \cup {last_op.id}
       /\ \A i, j \in 1..Len(buf) : buf[i].id = buf[j].id => i = j
       /\ buf[Entry(buf, last_op.id)].content = last_op.content
       /\ \A other \in Ids(before) \ {last_op.id} :
            buf[Entry(buf, other)] = before[Entry(before, other)]

\* a text that would never be learned took the place of the text its id had
C28_Witness ==
  /\ last_op.op = "record"
  /\ last_op.id \in Ids(last_op.before)
  /\ ~Learnable(last_op.content)
  /\ last_op.before[Entry(last_op.before, last_op.id)].content # last_op.content
  /\ Len(messages_for_chain_update) = 1

\* C29: the step in which clean_up_messages is called leaves the buffer as
\* it was, the entries it did not return included
C29_CleanKeepsBuffer ==
  [][\A p \in Procs :
       ~snap[p].taken /\ snap'[p].taken =>
         /\ messages_for_chain_update' = messages_for_chain_update
         /\ snap'[p].buffer = messages_for_chain_update']_vars

\* clean_up_messages has returned one text of a buffer of two
C29_Witness ==
  \E p \in Procs :
    /\ pc[p] = "copy"
    /\ Len(messages[p]) = 1
    /\ Len(messages_for_chain_update) = 2
    /\ messages_for_chain_update = snap[p].buffer

\* C30: the start loads the chain from data/chain.pickle, and with a file
\* that is not there or cannot be read the bot comes up with the seed chain
C30_StartFallsBackToSeed ==
  [][running = "boot" =>
       /\ running' = Idle
       /\ markov_chain' = (IF IsChain(primary) THEN pickle_load(primary.bytes) ELSE SeedChain)]_vars

\* the step of update p that runs lines 192-194
Merges(p) == pc[p] = "merge" /\ pc'[p] # "merge"

\* C33: under every interleaving of the recordings, the discards and the two
\* updates, the update that clears the buffer clears exactly the buffer it
\* took its snapshot from: every learnable message in the buffer at the clear
\* is one of the recordings in the merged snapshot, so none arrived between
\* the snapshot and the clear.
C33_ClearedWasInSnapshot ==
  [][\A p \in Procs :
       Merges(p) =>
         /\ messages_for_chain_update = snap[p].buffer
         /\ messages_for_chain_update' = <<>>
         /\ \A i \in 1..Len(messages_for_chain_update) :
              Trainable(messages_for_chain_update[i].content) =>
                /\ CopiesIn(messages_for_chain_update[i].serial, snap[p].serials) = 1
                /\ CopiesIn(messages_for_chain_update[i].serial, merged') = 1]_vars

\* C33 witness: the manual update, which was parked at its defer while the
\* listeners ran, has cleared a buffer of two recordings.
C33_Witness ==
  /\ pc["m"] = "open"
  /\ Len(snap["m"].buffer) = 2
  /\ snap["m"].serials # EmptyBag
  /\ messages_for_chain_update = <<>>

\* the entries of a buffer that clean_up_messages leaves out
Filtered(buf) == SelectSeq(buf, LAMBDA e : ~Learnable(e.content))

C34_WitnessEmptied ==
  /\ pc["p"] = "open"
  /\ Filtered(snap["p"].buffer) # <<>>
  /\ messages_for_chain_update = <<>>

\* C35: no seed word's list is ever longer than PREGEN_MARKOV_SENTENCES_AMOUNT
\* and the seed words are those installed by cog_load: no step adds or removes
\* a seed word once they are installed, and a step changes a list only by
\* taking its last sentence or by replacing a low list, unconsumed sentences
\* included, with a fresh one of the full size.
C35_QueuesBounded ==
  [][/\ \A seed \in DOMAIN markov_sentences' :
          Len(markov_sentences'[seed]) <= PREGEN_MARKOV_SENTENCES_AMOUNT
     /\ DOMAIN markov_sentences' \in {{}, KnownSeeds}
     /\ DOMAIN markov_sentences # {} => DOMAIN markov_sentences' = DOMAIN markov_sentences
     /\ \A seed \in DOMAIN markov_sentences :
          markov_sentences'[seed] # markov_sentences[seed] =>
            \/ /\ markov_sentences[seed] # <<>>
               /\ markov_sentences'[seed] = ListPop(markov_sentences[seed]).rest
            \/ /\ Len(markov_sentences[seed]) < PREGEN_REGENERATE_LIMIT
               /\ Len(markov_sentences'[seed]) = PREGEN_MARKOV_SENTENCES_AMOUNT]_vars

\* C35 witness: after a refill an unknown seed word has been asked for; the
\* seed words are the installed ones and a list is full.
C35_Witness ==
  /\ cache_op.op = "get" /\ cache_op.seed = "unban"
  /\ cache_op.prev \in {"refill", "refill_cut"}
  /\ DOMAIN markov_sentences = KnownSeeds
  /\ \E seed \in KnownSeeds :
       Len(markov_sentences[seed]) = PREGEN_MARKOV_SENTENCES_AMOUNT

\* C31: the merge of A, B and C, the merge of (A merged with B) and C, and the
\* merge of C and (B merged with A) are the same chain, so the order in which
\* models are merged does not show in the result.
C31_MergeOrderFree ==
  tables # <<>> =>
    /\ tables.flat = tables.nested
    /\ tables.nested = tables.swapped
    /\ tables.flat = models[1] (+) models[2] (+) models[3]

\* C31 witness: three different models have been merged, two of which hold
\* the same sentence in different numbers.
C31_Witness ==
  /\ tables # <<>>
  /\ models = <<SeedChain, SeedChain (+) SeedChain, OldChain>>
  /\ CopiesIn(StrJack, tables.flat) = 3

\* C32: a start that finds a whole data/chain.pickle loads from it the chain
\* that the last successful write put there, key by key and count by count,
\* and a whole file always holds that chain.
C32_LoadGivesWhatWasWritten ==
  [][/\ IsChain(primary') => pickle_load(primary'.bytes) = persisted'
     /\ running = "boot" /\ IsChain(primary)
          => running' = Idle /\ markov_chain' = persisted]_vars

\* C32 witness: the bot is up again on a chain that an update of an earlier
\* run has written, with a sentence held twice.
C32_Witness ==
  /\ running = Idle
  /\ nrecords > 0
  /\ merged = EmptyBag
  /\ boot_chain = persisted
  /\ CopiesIn(StrHelloWorld, boot_chain) = 2

\* the words that join_list_max_chars puts into its result before it stops
RECURSIVE Included(_, _, _)
Included(todo, current_length, limit) ==
  IF todo = <<>> \/ current_length + Len(Head(todo)) > limit - 3 THEN 0
  ELSE 1 + Included(Tail(todo), current_length + Len(Head(todo)), limit)

\* C38: the string that join_list_max_chars returns is never longer than
\* max_chars, and it ends with "..." exactly when a word was left out after
\* at least one word had been put in.
C38_JoinedFits ==
  joined # None =>
    /\ Len(joined[1]) <= max_chars
    /\ EndsWith(joined[1], StrDots)
         <=> (Included(words, 0, max_chars) >= 1 /\ Included(words, 0, max_chars) < Len(words))

\* C38, the part on the dots alone
C38_DotsWhenCut ==
  joined # None =>
    (EndsWith(joined[1], StrDots)
       <=> (Included(words, 0, max_chars) >= 1 /\ Included(words, 0, max_chars) < Len(words)))

\* the last n messages of a history
LastOf(history, n) == SubSeq(history, Len(history) - n + 1, Len(history))

C37_WitnessOldest ==
  /\ history_pc = "idle"
  /\ history_id = 2
  /\ Len(history_before.histories[2]) = 2
  /\ channel_histories[2] = Tail(history_before.histories[2] \o history_before.added)

\* the shared conversation is prompt, answer, prompt, answer, ..., each
\* answer to the prompt before it
InPairs(conv) ==
  /\ Len(conv) % 2 = 0
  /\ \A i \in 1..Len(conv) :
       IF i % 2 = 1
         THEN conv[i].role = "user"
         ELSE conv[i].role = "assistant" /\ conv[i].prompt = conv[i - 1].prompt

\* handler h works on a copy: the shared conversation as it was at the call,
\* with its own prompt added once it has asked
OwnCopy(h) ==
  LET copy == conversation_copy[h]
      asked == prompt_pc[h] \in {"llm", "sending", "fallback"}
      taken == IF asked THEN SubSeq(copy, 1, Len(copy) - 1) ELSE copy
  IN prompt_pc[h] \in {"images", "llm", "sending", "fallback"} =>
       /\ asked => copy # <<>> /\ copy[Len(copy)] = [role |-> "user", prompt |-> prompt_id[h]]
       /\ Len(taken) <= Len(conversation)
       /\ taken = SubSeq(conversation, 1, Len(taken))

\* C36: handlers that run side by side for one channel each work on their
\* own copy, the shared conversation gets each prompt with its answer right
\* behind it, and a handler whose model call has failed has added nothing to
\* the shared conversation and has replied with a Markov sentence.
C36_PromptsKeptApart ==
  /\ InPairs(conversation)
  /\ \A h \in Handlers : OwnCopy(h)
  /\ \A h \in Handlers :
       llm[h] \in {"error_with_response", "error"} /\ prompt_pc[h] \in {"done", "raised"} =>
         /\ \A i \in 1..Len(conversation) : conversation[i].prompt # prompt_id[h]
         /\ replied[h] = "markov"

\* C36 without the reply after a failure
C36_PairsKeptApart ==
  /\ InPairs(conversation)
  /\ \A h \in Handlers : OwnCopy(h)
  /\ \A h \in Handlers :
       llm[h] \in {"error_with_response", "error"} =>
         \A i \in 1..Len(conversation) : conversation[i].prompt # prompt_id[h]

\* two handlers were under way together and both have added their pair
C36_WitnessPairs ==
  /\ Len(conversation) = 4
  /\ conversation[1].prompt = 2
  /\ conversation[3].prompt = 1

\* the reminders that a tick has delivered somewhere
Delivered == {d.id : d \in deliveries}

\* C39: a tick that takes up a due reminder whose user is found delivers it
\* and removes it from the store and from the file before the tick is over,
\* and no reminder is delivered by two ticks.
C39_DeliveredThenRemoved ==
  /\ remind_pc \in {"sleeping", "raised"} =>
       \A id \in Delivered : id \notin DOMAIN reminders /\ id \notin DOMAIN reminders_file
  /\ \A d \in deliveries, e \in deliveries : d.id = e.id => d.tick = e.tick
  /\ remind_pc # "raised"

\* C39 as long as the task has not ended
C39_WhileTaskRuns ==
  /\ remind_pc = "sleeping" =>
       \A id \in Delivered : id \notin DOMAIN reminders /\ id \notin DOMAIN reminders_file
  /\ \A d \in deliveries, e \in deliveries : d.id = e.id => d.tick = e.tick
  /\ reminders_file = reminders

\* a reminder for both places has been delivered to both and removed, while
\* another one, set in the meantime, is stored
C39_WitnessBoth ==
  /\ remind_pc = "sleeping"
  /\ \E id \in 1..MaxReminders :
       /\ [id |-> id, to |-> "dm", tick |-> 1] \in deliveries
       /\ [id |-> id, to |-> "here", tick |-> 1] \in deliveries
       /\ id \notin DOMAIN reminders
  /\ DOMAIN reminders # {}

\* the calls that the registered functions ask for, in registration order
Registered ==
  [i \in 1..Len(cleanup_functions) |->
     [function |-> cleanup_functions[i].function,
      with_args |-> cleanup_functions[i].args # <<>>]]

\* C40: close calls every registered function once, in the order of
\* registration, and the framework's close after all of them have ended, so
\* that a close that is over has run the chain update and closed the
\* connection.
C40_CleanupThenClose ==
  /\ Len(called) <= Len(Registered) /\ called = SubSeq(Registered, 1, Len(called))
  /\ framework_closed => called = Registered /\ close_pc = "closed"
  /\ close_pc \in {"closed", "raised"} => called = Registered /\ framework_closed

\* C40 for a close whose functions all return
C40_InOrderBeforeClose ==
  /\ Len(called) <= Len(Registered) /\ called = SubSeq(Registered, 1, Len(called))
  /\ framework_closed => called = Registered /\ close_pc = "closed"
  /\ close_pc = "closed" => framework_closed

\* the chain update and another function have been called in that order and
\* the connection is closed
C40_WitnessClosed ==
  /\ framework_closed
  /\ Len(called) = 2
  /\ called[1] = [function |-> "learn", with_args |-> TRUE]
  /\ called[2].function = "other"

====
